---- MODULE Spec2Model ----
(***************************************************************************)
(* Constant-time selection: the wrappers of library/core/src/intrinsics/   *)
(* select.rs and the i32 helpers of examples/ctselect_basic.rs.            *)
(*                                                                         *)
(* Every function is an operator returning an outcome record               *)
(*   [status, val, calls]                                                  *)
(* where status is "ok" or "panic", val the returned value and calls the   *)
(* sequence of select-intrinsic calls the function issued, each with the   *)
(* operands it was handed.  The state machine keeps three storage cells    *)
(* of one scalar type, applies one function per step to the cells and      *)
(* records the outcome; ct_swap is the only step that writes the cells.    *)
(***************************************************************************)
EXTENDS Integers, Sequences, FiniteSets, TLC

VARIABLES
    overflow_checks,  \* build setting: does `-x` / `+` trap on overflow
    ty,               \* the scalar type T of the three cells
    mem,              \* the cells: [Locs -> Values(ty)]
    pre,              \* the cells as they were when the last call started
    op,               \* the function called last
    cond,             \* its bool argument (FALSE when it takes none)
    la, lb,           \* the cells passed as a and b
    result,           \* its return value
    status,           \* "ok", or "panic" when it trapped
    calls             \* the select-intrinsic calls it issued, in order

vars == <<overflow_checks, ty, mem, pre, op, cond, la, lb, result, status, calls>>

(***************************************************************************)
(* Bounds of the model.                                                    *)
(***************************************************************************)
\* how many values next to i32::MIN, to 0 and to i32::MAX the cells draw from
MaxNear == 1

(***************************************************************************)
(* Scalar types.                                                           *)
(***************************************************************************)
I8_BITS == 8
I16_BITS == 16
I32_BITS == 32

Types == {"i8", "i16", "i32", "i64", "ptr", "bool"}
IntTypes == {"i8", "i16", "i32", "i64"}
NarrowTypes == {"i8", "i16", "i32"}

Bits(t) == CASE t = "i8" -> I8_BITS [] t = "i16" -> I16_BITS [] t = "i32" -> I32_BITS

\* 2^(bits-1) - 1, written so that no intermediate value leaves 32 bits
MaxOf(t) == (2 ^ (Bits(t) - 2) - 1) * 2 + 1
MinOf(t) == (-MaxOf(t)) - 1

I32_MAX == MaxOf("i32")
I32_MIN == MinOf("i32")

\* An i64 is kept as its two 32-bit words: hi is the signed high word, lo the
\* bit pattern of the low word read as an i32.
I64(h, l) == [hi |-> h, lo |-> l]
I64_MIN == I64(I32_MIN, 0)
I64_MAX == I64(I32_MAX, -1)

Locs == {"a", "b", "c"}

Near(t) == {MinOf(t) + i : i \in 0 .. MaxNear - 1}
             \cup (-MaxNear .. MaxNear)
             \cup {MaxOf(t) - i : i \in 0 .. MaxNear - 1}

Values(t) ==
    CASE t = "i8" -> {MinOf(t), -1, 0, 1, MaxOf(t)}
      [] t = "i16" -> {MinOf(t), -1, 0, 1, MaxOf(t)}
      [] t = "i32" -> Near(t)
      [] t = "i64" -> {I64_MIN, I64(-1, -1), I64(0, 0), I64(0, 1), I64(0, -1), I64_MAX}
      [] t = "ptr" -> {0, 4096, 8192}
      [] t = "bool" -> BOOLEAN

(***************************************************************************)
(* Outcomes.                                                               *)
(***************************************************************************)
Ok(v, cs) == [status |-> "ok", val |-> v, calls |-> cs]
Panic(cs) == [status |-> "panic", val |-> "none", calls |-> cs]

(***************************************************************************)
(* Arithmetic of the scalar types.                                         *)
(***************************************************************************)
\* a + b modulo 2^Bits(t), for a, b in MinOf(t) .. MaxOf(t)
WrapAdd(t, a, b) ==
    IF a >= 0 /\ b >= 0 /\ a > MaxOf(t) - b
    THEN (a - MaxOf(t) - 1) + (b - MaxOf(t) - 1)
    ELSE IF a < 0 /\ b < 0 /\ a < MinOf(t) - b
    THEN (a + MaxOf(t) + 1) + (b + MaxOf(t) + 1)
    ELSE a + b

\* a - b modulo 2^Bits(t)
WrapSub(t, a, b) ==
    IF a >= 0 /\ b < 0 /\ a > MaxOf(t) + b
    THEN (a - MaxOf(t) - 1) - (b + MaxOf(t) + 1)
    ELSE IF a < 0 /\ b >= 0 /\ a < MinOf(t) + b
    THEN (a + MaxOf(t) + 1) - (b - MaxOf(t) - 1)
    ELSE a - b

\* unsigned order of two 32-bit patterns held as i32
ULt32(x, y) == IF (x < 0) = (y < 0) THEN x < y ELSE y < 0

\* x + y modulo 2^64 on the two-word form
WrapAdd64(x, y) ==
    LET l == WrapAdd("i32", x.lo, y.lo)
        carry == IF ULt32(l, x.lo) THEN 1 ELSE 0
    IN  I64(WrapAdd("i32", WrapAdd("i32", x.hi, y.hi), carry), l)

Add(t, a, b) == IF t = "i64" THEN WrapAdd64(a, b) ELSE WrapAdd(t, a, b)

\* the operator `-x` on i32: traps on i32::MIN in a build with overflow checks,
\* wraps to i32::MIN in a build without
Neg(oc, v) ==
    IF v = I32_MIN
    THEN (IF oc THEN Panic(<<>>) ELSE Ok(I32_MIN, <<>>))
    ELSE Ok(-v, <<>>)

\* a < b of T: Ord
Lt(t, a, b) ==
    CASE t = "i64" -> a.hi < b.hi \/ (a.hi = b.hi /\ ULt32(a.lo, b.lo))
      [] t = "bool" -> (~a) /\ b
      [] OTHER -> a < b

Gt(t, a, b) == Lt(t, b, a)
Le(t, a, b) == ~Lt(t, b, a)
Ge(t, a, b) == ~Lt(t, a, b)

\* bitwise operators on two's-complement integers, bit by bit from the low end
RECURSIVE NotW(_)
NotW(x) ==
    IF x = 0 THEN -1
    ELSE IF x = -1 THEN 0
    ELSE 2 * NotW(x \div 2) + (1 - (x % 2))

RECURSIVE AndW(_, _)
AndW(x, y) ==
    IF x = 0 \/ y = 0 THEN 0
    ELSE IF x = -1 THEN y
    ELSE IF y = -1 THEN x
    ELSE 2 * AndW(x \div 2, y \div 2) + ((x % 2) * (y % 2))

RECURSIVE OrW(_, _)
OrW(x, y) ==
    IF x = -1 \/ y = -1 THEN -1
    ELSE IF x = 0 THEN y
    ELSE IF y = 0 THEN x
    ELSE 2 * OrW(x \div 2, y \div 2) + (IF (x % 2) + (y % 2) > 0 THEN 1 ELSE 0)

\* !x of T: Not
Not(t, x) == IF t = "i64" THEN I64(NotW(x.hi), NotW(x.lo)) ELSE NotW(x)
BitAnd(t, x, y) ==
    IF t = "i64" THEN I64(AndW(x.hi, y.hi), AndW(x.lo, y.lo)) ELSE AndW(x, y)
BitOr(t, x, y) ==
    IF t = "i64" THEN I64(OrW(x.hi, y.hi), OrW(x.lo, y.lo)) ELSE OrW(x, y)

\* the number of one bits among the low n bits of x
RECURSIVE OnesW(_, _)
OnesW(x, n) == IF n = 0 THEN 0 ELSE (x % 2) + OnesW(x \div 2, n - 1)

(***************************************************************************)
(* The select intrinsics, core::intrinsics::ct_select_{i8,i16,i32,i64,     *)
(* ptr,bool}.  They are compiler intrinsics; what they return is taken     *)
(* from the contract: on_true when cond is true, else on_false.            *)
(***************************************************************************)
IntrinsicName(t) == "ct_select_" \o t

Call(t, c, true_val, false_val) ==
    [intrinsic |-> IntrinsicName(t), cond |-> c,
     true_val |-> true_val, false_val |-> false_val]

intrinsics_ct_select(t, c, true_val, false_val) ==
    Ok(IF c THEN true_val ELSE false_val, <<Call(t, c, true_val, false_val)>>)

\* the equality capability: ZERO and the ct_eq method of ConstantTimeEq.  The
\* trait is declared in select.rs, its implementations are not.
ZERO(t) == IF t = "i64" THEN I64(0, 0) ELSE 0
ConstantTimeEq_ct_eq(t, self, other) == self = other

(***************************************************************************)
(* library/core/src/intrinsics/select.rs                                   *)
(***************************************************************************)
\* impl ConstantTimeSelect for $ty: the trait method T::ct_select
ConstantTimeSelect_ct_select(t, c, true_val, false_val) ==
    intrinsics_ct_select(t, c, true_val, false_val)

ct_select_flipped(t, c, true_val, false_val) ==
    ConstantTimeSelect_ct_select(t, c, false_val, true_val)

\* pub fn ct_select<T>
ct_select(t, c, true_val, false_val) ==
    ConstantTimeSelect_ct_select(t, c, true_val, false_val)

ct_min(t, a, b) == ConstantTimeSelect_ct_select(t, Lt(t, a, b), a, b)

ct_max(t, a, b) == ConstantTimeSelect_ct_select(t, Gt(t, a, b), a, b)

ct_eq_inverted(t, a, b) == ConstantTimeSelect_ct_select("bool", a = b, FALSE, TRUE)

ct_eq(t, a, b) == ConstantTimeSelect_ct_select("bool", a = b, TRUE, FALSE)

ct_zero(t, a) ==
    LET c == ConstantTimeEq_ct_eq(t, a, ZERO(t))
    IN  ConstantTimeSelect_ct_select("bool", c, TRUE, FALSE)

\* the second select reads *a after it was assigned
ct_swap_no_snapshot(t, a, b, condition) ==
    LET new_a == ConstantTimeSelect_ct_select(t, condition, b, a)
        new_b == ConstantTimeSelect_ct_select(t, condition, new_a.val, b)
    IN  Ok(<<new_a.val, new_b.val>>, new_a.calls \o new_b.calls)

\* ct_swap(&mut a, &mut b, condition): val is the pair <<*a, *b>> it leaves
ct_swap(t, a, b, condition) ==
    LET temp_a == a
        temp_b == b
        new_a == ConstantTimeSelect_ct_select(t, condition, temp_b, temp_a)
        new_b == ConstantTimeSelect_ct_select(t, condition, temp_a, temp_b)
    IN  Ok(<<new_a.val, new_b.val>>, new_a.calls \o new_b.calls)

ct_mask_inverted(t, condition) ==
    ConstantTimeSelect_ct_select(t, condition, ZERO(t), Not(t, ZERO(t)))

ct_mask(t, condition) ==
    ConstantTimeSelect_ct_select(t, condition, Not(t, ZERO(t)), ZERO(t))

(***************************************************************************)
(* examples/ctselect_basic.rs                                              *)
(***************************************************************************)
ct_select_i8(c, a, b) == intrinsics_ct_select("i8", c, a, b)
ct_select_i16(c, a, b) == intrinsics_ct_select("i16", c, a, b)
ct_select_i32(c, a, b) == intrinsics_ct_select("i32", c, a, b)
ct_select_i64(c, a, b) == intrinsics_ct_select("i64", c, a, b)

basic_select(condition, secret_a, secret_b) ==
    ct_select_i32(condition, secret_a, secret_b)

select_i8(condition, a, b) == ct_select_i8(condition, a, b)
select_i16(condition, a, b) == ct_select_i16(condition, a, b)
select_i32(condition, a, b) == ct_select_i32(condition, a, b)
select_i64(condition, a, b) == ct_select_i64(condition, a, b)

ct_min_i32_ge(a, b) == ct_select_i32(a >= b, a, b)

ct_min_i32(a, b) == ct_select_i32(a <= b, a, b)

ct_max_i32(a, b) == ct_select_i32(a >= b, a, b)

ct_abs_i32(oc, value) ==
    LET is_negative == value < 0
        neg == Neg(oc, value)
    IN  IF neg.status = "panic" THEN neg
        ELSE ct_select_i32(is_negative, neg.val, value)

ct_conditional_negate(oc, condition, value) ==
    LET neg == Neg(oc, value)
    IN  IF neg.status = "panic" THEN neg
        ELSE ct_select_i32(condition, neg.val, value)

\* the two bounds handed to the wrong helper
ct_clamp_i32_bounds_crossed(value, min_val, max_val) ==
    LET clamped_min == ct_max_i32(value, max_val)
        r == ct_min_i32(clamped_min.val, min_val)
    IN  Ok(r.val, clamped_min.calls \o r.calls)

ct_clamp_i32(value, min_val, max_val) ==
    LET clamped_min == ct_max_i32(value, min_val)
        r == ct_min_i32(clamped_min.val, max_val)
    IN  Ok(r.val, clamped_min.calls \o r.calls)

ct_conditional_arithmetic(condition, a, b) ==
    LET add_result == WrapAdd("i32", a, b)
        sub_result == WrapSub("i32", a, b)
    IN  ct_select_i32(condition, add_result, sub_result)

ct_signum_i32_ge(value) ==
    LET is_positive == value >= 0
        is_negative == value < 0
        positive_result == ct_select_i32(is_positive, 1, 0)
        r == ct_select_i32(is_negative, -1, positive_result.val)
    IN  Ok(r.val, positive_result.calls \o r.calls)

ct_signum_i32(value) ==
    LET is_positive == value > 0
        is_negative == value < 0
        positive_result == ct_select_i32(is_positive, 1, 0)
        r == ct_select_i32(is_negative, -1, positive_result.val)
    IN  Ok(r.val, positive_result.calls \o r.calls)

(***************************************************************************)
(* The state machine.                                                      *)
(***************************************************************************)
Init ==
    /\ overflow_checks \in BOOLEAN
    /\ ty \in Types
    /\ mem \in [Locs -> Values(ty)]
    /\ pre = mem
    /\ op = "none"
    /\ cond = FALSE
    /\ la = "a"
    /\ lb = "b"
    /\ result = "none"
    /\ status = "ok"
    /\ calls = <<>>

\* a call of function `name` on the cells a, b (and c) that returns outcome r
\* and writes no cell
Return(name, c, r) ==
    /\ op' = name
    /\ cond' = c
    /\ la' = "a"
    /\ lb' = "b"
    /\ pre' = mem
    /\ result' = r.val
    /\ status' = r.status
    /\ calls' = r.calls
    /\ UNCHANGED <<overflow_checks, ty, mem>>

CtSelect ==
    \E c \in BOOLEAN : Return("ct_select", c, ct_select(ty, c, mem["a"], mem["b"]))

TraitCtSelect ==
    \E c \in BOOLEAN :
        Return("T::ct_select", c, ConstantTimeSelect_ct_select(ty, c, mem["a"], mem["b"]))

CtMin == Return("ct_min", FALSE, ct_min(ty, mem["a"], mem["b"]))

CtMax == Return("ct_max", FALSE, ct_max(ty, mem["a"], mem["b"]))

CtEq == Return("ct_eq", FALSE, ct_eq(ty, mem["a"], mem["b"]))

CtZero ==
    /\ ty \in IntTypes
    /\ Return("ct_zero", FALSE, ct_zero(ty, mem["a"]))

CtMask ==
    /\ ty \in IntTypes
    /\ \E c \in BOOLEAN : Return("ct_mask", c, ct_mask(ty, c))

CtSwap ==
    \E x \in Locs, y \in Locs, c \in BOOLEAN :
        LET r == ct_swap(ty, mem[x], mem[y], c)
        IN  /\ x # y
            /\ op' = "ct_swap"
            /\ cond' = c
            /\ la' = x
            /\ lb' = y
            /\ pre' = mem
            /\ mem' = [mem EXCEPT ![x] = r.val[1], ![y] = r.val[2]]
            /\ result' = "unit"
            /\ status' = r.status
            /\ calls' = r.calls
            /\ UNCHANGED <<overflow_checks, ty>>

BasicSelect ==
    /\ ty = "i32"
    /\ \E c \in BOOLEAN : Return("basic_select", c, basic_select(c, mem["a"], mem["b"]))

SelectI8 ==
    /\ ty = "i8"
    /\ \E c \in BOOLEAN : Return("select_i8", c, select_i8(c, mem["a"], mem["b"]))

SelectI16 ==
    /\ ty = "i16"
    /\ \E c \in BOOLEAN : Return("select_i16", c, select_i16(c, mem["a"], mem["b"]))

SelectI32 ==
    /\ ty = "i32"
    /\ \E c \in BOOLEAN : Return("select_i32", c, select_i32(c, mem["a"], mem["b"]))

SelectI64 ==
    /\ ty = "i64"
    /\ \E c \in BOOLEAN : Return("select_i64", c, select_i64(c, mem["a"], mem["b"]))

CtMinI32 ==
    /\ ty = "i32"
    /\ Return("ct_min_i32", FALSE, ct_min_i32(mem["a"], mem["b"]))

CtMaxI32 ==
    /\ ty = "i32"
    /\ Return("ct_max_i32", FALSE, ct_max_i32(mem["a"], mem["b"]))

CtAbsI32 ==
    /\ ty = "i32"
    /\ Return("ct_abs_i32", FALSE, ct_abs_i32(overflow_checks, mem["a"]))

CtConditionalNegate ==
    /\ ty = "i32"
    /\ \E c \in BOOLEAN :
        Return("ct_conditional_negate", c, ct_conditional_negate(overflow_checks, c, mem["a"]))

CtClampI32 ==
    /\ ty = "i32"
    /\ Return("ct_clamp_i32", FALSE, ct_clamp_i32(mem["a"], mem["b"], mem["c"]))

CtConditionalArithmetic ==
    /\ ty = "i32"
    /\ \E c \in BOOLEAN :
        Return("ct_conditional_arithmetic", c, ct_conditional_arithmetic(c, mem["a"], mem["b"]))

CtSignumI32 ==
    /\ ty = "i32"
    /\ Return("ct_signum_i32", FALSE, ct_signum_i32(mem["a"]))

Next ==
    \/ CtSelect
    \/ TraitCtSelect
    \/ CtMin
    \/ CtMax
    \/ CtEq
    \/ CtZero
    \/ CtMask
    \/ CtSwap
    \/ BasicSelect
    \/ SelectI8
    \/ SelectI16
    \/ SelectI32
    \/ SelectI64
    \/ CtMinI32
    \/ CtMaxI32
    \/ CtAbsI32
    \/ CtConditionalNegate
    \/ CtClampI32
    \/ CtConditionalArithmetic
    \/ CtSignumI32

Spec == Init /\ [][Next]_vars

(***************************************************************************)
(* Properties.  A, B and C are the arguments of the call recorded in the   *)
(* state: the cells a, b and c as the call found them.                     *)
(***************************************************************************)
A == pre["a"]
B == pre["b"]
C == pre["c"]

SelectOps ==
    {"ct_select", "T::ct_select", "basic_select",
     "select_i8", "select_i16", "select_i32", "select_i64"}

\* C1: on every supported type (i8, i16, i32, i64, bool, pointer-sized) a
\* select returns its second argument when cond is true and its third when
\* cond is false, hence a when both are a; the generic ct_select, the trait
\* method and the example wrappers return what the type's intrinsic returns,
\* from one call of that intrinsic on the same operands.
C1_SelectReturnsChosen ==
    op \in SelectOps =>
        /\ status = "ok"
        /\ cond => result = A
        /\ ~cond => result = B
        /\ A = B => result = A
        /\ result = intrinsics_ct_select(ty, cond, A, B).val
        /\ calls = <<Call(ty, cond, A, B)>>

C1_Witness ==
    /\ op = "ct_select"
    /\ ty = "i64"
    /\ cond
    /\ A = I64_MIN
    /\ B = I64_MAX
    /\ result = I64_MIN

\* C2: after ct_swap(a, b, cond) with cond true, a holds the old b and b the
\* old a; with cond false both hold what they held; both selects are handed
\* the values the cells held before either was assigned; no other cell changes.
C2_SwapFrame ==
    op = "ct_swap" =>
        /\ status = "ok"
        /\ cond => (mem[la] = pre[lb] /\ mem[lb] = pre[la])
        /\ ~cond => mem = pre
        /\ calls = <<Call(ty, cond, pre[lb], pre[la]), Call(ty, cond, pre[la], pre[lb])>>
        /\ \A l \in Locs \ {la, lb} : mem[l] = pre[l]

C2_Witness ==
    /\ op = "ct_swap"
    /\ cond
    /\ la = "c"
    /\ lb = "a"
    /\ pre[la] # pre[lb]
    /\ mem[la] = pre[lb]
    /\ mem[lb] = pre[la]

\* C3: on a signed integer type min(a, b) = select(a <= b, a, b), max(a, b) =
\* select(a >= b, a, b) and min(a, b) + max(a, b) = a + b modulo 2^w, for the
\* library's ct_min / ct_max and for the example's ct_min_i32 / ct_max_i32,
\* which therefore return equal values on every input, a = b included.
C3_MinMax ==
    /\ (op = "ct_min" /\ ty \in IntTypes) =>
        /\ status = "ok"
        /\ result = (IF Le(ty, A, B) THEN A ELSE B)
        /\ Add(ty, result, ct_max(ty, A, B).val) = Add(ty, A, B)
    /\ (op = "ct_max" /\ ty \in IntTypes) =>
        /\ status = "ok"
        /\ result = (IF Ge(ty, A, B) THEN A ELSE B)
        /\ Add(ty, ct_min(ty, A, B).val, result) = Add(ty, A, B)
    /\ op = "ct_min_i32" =>
        /\ status = "ok"
        /\ result = (IF A <= B THEN A ELSE B)
        /\ result = ct_min("i32", A, B).val
        /\ WrapAdd("i32", result, ct_max_i32(A, B).val) = WrapAdd("i32", A, B)
    /\ op = "ct_max_i32" =>
        /\ status = "ok"
        /\ result = (IF A >= B THEN A ELSE B)
        /\ result = ct_max("i32", A, B).val
        /\ WrapAdd("i32", ct_min_i32(A, B).val, result) = WrapAdd("i32", A, B)

C3_Witness ==
    /\ op = "ct_min_i32"
    /\ A = I32_MAX
    /\ B = I32_MAX
    /\ result = I32_MAX
    /\ WrapAdd("i32", A, B) = -2

\* C4: for lo <= hi, clamp(v, lo, hi) = min(max(v, lo), hi) lies in [lo, hi],
\* is v when v lies in [lo, hi], lo when v < lo and hi when v > hi.
C4_Clamp ==
    (op = "ct_clamp_i32" /\ B <= C) =>
        /\ status = "ok"
        /\ LET mx == IF A >= B THEN A ELSE B
           IN  result = (IF mx <= C THEN mx ELSE C)
        /\ B <= result
        /\ result <= C
        /\ (B <= A /\ A <= C) => result = A
        /\ A < B => result = B
        /\ A > C => result = C

C4_Witness ==
    /\ op = "ct_clamp_i32"
    /\ A = I32_MAX
    /\ B = -1
    /\ C = 1
    /\ result = 1

\* C5: signum(v) is one of -1, 0, 1; it is 0 exactly when v = 0, -1 exactly
\* when v < 0 and 1 exactly when v > 0, i32::MIN and i32::MAX included.
C5_Signum ==
    op = "ct_signum_i32" =>
        /\ status = "ok"
        /\ result \in {-1, 0, 1}
        /\ result = 0 <=> A = 0
        /\ result = -1 <=> A < 0
        /\ result = 1 <=> A > 0

C5_Witness ==
    /\ op = "ct_signum_i32"
    /\ A = I32_MIN
    /\ result = -1

\* C6: every operation is total and wraps at the boundary: abs and
\* conditional_negate return with the negation taken modulo 2^32 (abs(MIN) =
\* MIN, conditional_negate(true, MIN) = MIN, conditional_negate(false, v) = v),
\* conditional_arithmetic returns a + b or a - b modulo 2^32, and no call of
\* any operation ends in a trap.
C6_TotalAndWrapping ==
    /\ status = "ok"
    /\ op = "ct_abs_i32" =>
        result = (IF A < 0 THEN WrapSub("i32", 0, A) ELSE A)
    /\ op = "ct_conditional_negate" =>
        result = (IF cond THEN WrapSub("i32", 0, A) ELSE A)
    /\ op = "ct_conditional_arithmetic" =>
        result = (IF cond THEN WrapAdd("i32", A, B) ELSE WrapSub("i32", A, B))

\* every bit of the value set / clear, at the width of the type
AllOnes(t, v) ==
    IF t = "i64"
    THEN OnesW(v.hi, I32_BITS) = I32_BITS /\ OnesW(v.lo, I32_BITS) = I32_BITS
    ELSE OnesW(v, Bits(t)) = Bits(t)

AllClear(t, v) ==
    IF t = "i64"
    THEN OnesW(v.hi, I32_BITS) = 0 /\ OnesW(v.lo, I32_BITS) = 0
    ELSE OnesW(v, Bits(t)) = 0

\* C7: mask(true) is the all-ones value of T, the complement of ZERO, and
\* mask(false) is ZERO, all bits clear; so (x AND mask(cond)) OR
\* (y AND NOT mask(cond)) = select(cond, x, y) for all x, y of T.
C7_Mask ==
    op = "ct_mask" =>
        /\ status = "ok"
        /\ cond => (result = Not(ty, ZERO(ty)) /\ AllOnes(ty, result))
        /\ ~cond => (result = ZERO(ty) /\ AllClear(ty, result))
        /\ \A x \in {A, B, C}, y \in {A, B, C} :
            BitOr(ty, BitAnd(ty, x, result), BitAnd(ty, y, Not(ty, result)))
                = ct_select(ty, cond, x, y).val

C7_Witness ==
    /\ op = "ct_mask"
    /\ ty = "i32"
    /\ cond
    /\ result = -1
    /\ A = I32_MIN
    /\ B = I32_MAX

\* the functions by the number of select calls their bodies hold
OneCallOps ==
    SelectOps \cup
    {"ct_min", "ct_max", "ct_eq", "ct_zero", "ct_mask", "ct_min_i32", "ct_max_i32",
     "ct_abs_i32", "ct_conditional_negate", "ct_conditional_arithmetic"}

TwoCallOps == {"ct_swap", "ct_clamp_i32", "ct_signum_i32"}

\* C8: the number of select calls an operation issues is fixed: one for
\* select, min, max, equal, is_zero, mask, abs, conditional_negate and
\* conditional_arithmetic, two for swap, clamp and signum, on every input.
C8_FixedCallCount ==
    /\ op \in OneCallOps => Len(calls) = 1
    /\ op \in TwoCallOps => Len(calls) = 2

\* C9: equal(a, b) is true exactly when a = b and is the bool select
\* select(a == b, true, false); is_zero(a) is true exactly when a is the
\* type's ZERO, that is is_zero(a) = equal(a, ZERO).
C9_EqualAndIsZero ==
    /\ op = "ct_eq" =>
        /\ status = "ok"
        /\ result \in BOOLEAN
        /\ result <=> A = B
        /\ calls = <<Call("bool", A = B, TRUE, FALSE)>>
    /\ op = "ct_zero" =>
        /\ status = "ok"
        /\ result \in BOOLEAN
        /\ result <=> A = ZERO(ty)
        /\ result = ct_eq(ty, A, ZERO(ty)).val

C9_Witness ==
    /\ op = "ct_zero"
    /\ ty = "i64"
    /\ A = I64(0, 0)
    /\ result = TRUE

====
